---- MODULE Spec2Model ----
(***************************************************************************)
(* Model of heat_simulation_IQR.py: the Streamlit script that estimates    *)
(* the heat loss of a rotary kiln shell from surface temperatures, finds   *)
(* outliers of the per-location loss with the IQR method, replaces the     *)
(* temperature of every high outlier by the median of the other readings   *)
(* and reports savings and repair cost.                                    *)
(*                                                                         *)
(* Numbers.  The script computes in IEEE-754 binary64.  The model keeps    *)
(* the structure of that arithmetic (every operation is the exact result   *)
(* rounded to the nearest representable value, ties to even; NaN is        *)
(* absorbing and compares false) at a reduced significand of Prec bits, so *)
(* that every value fits TLC's integers.  A quantity is an integer count   *)
(* of a fixed unit:                                                        *)
(*     temperatures           1/TempScale  K                               *)
(*     flux (loss per m^2)    2^-28  kcal / (kg clinker m^2)               *)
(*     section area           1/AreaScale  m^2                             *)
(*     loss, savings          2^-24  kcal / kg clinker                     *)
(*     money                  1  rupee                                     *)
(* The powers T^4, x^-0.724, x^1.333, x^-0.351 of lines 52-61 are tabulated *)
(* at knots every KnotStep Kelvin from the source's formulas (emissivity   *)
(* 0.77 and clinker production 290000 kg/hr, the widgets' defaults, and an *)
(* ambient temperature of 302 K) and interpolated linearly in between.     *)
(***************************************************************************)
EXTENDS Integers, Sequences, FiniteSets, TLC

----------------------------------------------------------------------------
(* Floating point at reduced precision *)

\* significand width of the modelled floating-point format (binary64: 53)
Prec == 16

\* numpy's NaN: the result of a negative base raised to 1.333 (line 58)
NaN == -1073741824

IsNaN(x) == x = NaN

Abs(x) == IF x < 0 THEN -x ELSE x

\* spacing of the representable values around a >= 0: the least power of
\* two q with a < 2^Prec * q
RECURSIVE Spacing(_, _)
Spacing(a, q) == IF a < (2 ^ Prec) * q THEN q ELSE Spacing(a, 2 * q)

Quantum(x) == Spacing(Abs(x), 1)

\* floor(w + r/d) rounded to the nearest integer, ties to even; 0 <= r < d
TiesToEven(w, r, d) ==
    IF 2 * r < d THEN w
    ELSE IF 2 * r > d THEN w + 1
    ELSE IF w % 2 = 0 THEN w ELSE w + 1

\* round to nearest representable value, ties to even
RN(x) ==
    LET q == Quantum(x)
        a == Abs(x)
        r == q * TiesToEven(a \div q, a % q, q)
    IN  IF x < 0 THEN -r ELSE r

\* x * n / d, n >= 0, d > 0, rounded; computed without leaving 32 bits
Scale(x, n, d) ==
    LET a == Abs(x)
        w == (a \div d) * n + ((a % d) * n) \div d
        r == TiesToEven(w, ((a % d) * n) % d, d)
    IN  IF x < 0 THEN -r ELSE r

FAdd(x, y) == IF IsNaN(x) \/ IsNaN(y) THEN NaN ELSE RN(x + y)
FSub(x, y) == IF IsNaN(x) \/ IsNaN(y) THEN NaN ELSE RN(x - y)
FScale(x, n, d) == IF IsNaN(x) THEN NaN ELSE RN(Scale(x, n, d))

\* float comparisons: false whenever an operand is NaN
FGt(x, y) == ~IsNaN(x) /\ ~IsNaN(y) /\ x > y
FLt(x, y) == ~IsNaN(x) /\ ~IsNaN(y) /\ x < y

----------------------------------------------------------------------------
(* Units and program constants *)

TempScale == 128
AreaScale == 1024

\* math.pi and the literal 3.14 of line 156, as rationals
PiNum == 355
PiDen == 113
Pi314Num == 314
Pi314Den == 100

CELSIUS_OFFSET == 273
RINGS_PER_METER == 5
SHELL_THICKNESS == 16
BRICK_HEIGHT == 220
BRICK_COST == 100
WORKING_DAYS_PER_YEAR == 330
COAL_CALORIFIC_VALUE == 4500
COAL_COST_PER_TON == 4500
CLINKER_PRODUCTION == 290000

----------------------------------------------------------------------------
(* PhysicsModel: Kiln.radiation and Kiln.convection *)

KnotBase == 282
KnotStep == 20

\* emissivity * sigma * (T^4 - Ta^4) / clinker_production at the knots
RadiationKnots ==
    << -80587, 0, 98291, 216708, 357827, 524378, 719249, 945480,
       1206269, 1504968, 1845084, 2230279, 2664370 >>

\* 80.33 * ((T+Ta)/2)^-0.724 * (T-Ta)^1.333 / clinker_production, T >= Ta
NaturalKnots ==
    << 0, 0, 63070, 155302, 260790, 374545, 493882, 617111,
       743079, 870959, 1000135, 1130142, 1260618 >>

\* 28.03 * (T*Ta)^-0.351 * (T-Ta) / clinker_production
ForcedKnots ==
    << -9651, 0, 9212, 18038, 26523, 34703, 42609, 50267,
       57699, 64925, 71962, 78825, 85527 >>

\* value at temperature T of a function tabulated at the knots
Interpolate(knots, T) ==
    LET step == KnotStep * TempScale
        off  == T - KnotBase * TempScale
        k    == IF off \div step + 1 >= Len(knots) THEN Len(knots) - 1
                ELSE off \div step + 1
        rest == off - (k - 1) * step
    IN  RN(knots[k] + Scale(knots[k + 1] - knots[k], rest, step))

\* ambient_velocity ** 0.805, in 1/4096
VelocityPow(v) == CASE v = 3 -> 9918 [] v = 5 -> 14963 [] OTHER -> 0

\* diameter ** -0.195, in 1/4096 (diameter in cm)
DiameterPow(d) == CASE d = 475 -> 3023 [] d = 476 -> 3022 [] OTHER -> 0

\* line 33: math.pi * diameter * interval
SectionArea(d, iv) == RN(Scale(d * iv, PiNum * AreaScale, PiDen * 100))

\* line 52, divided by clinker_production (line 83)
Radiation(k, T) ==
    IF IsNaN(T) THEN NaN
    ELSE FScale(Interpolate(RadiationKnots, T), k.section_area, 16 * AreaScale)

NaturalConvection(k, T) ==
    IF T < k.ambient_temp THEN NaN
    ELSE FScale(Interpolate(NaturalKnots, T), k.section_area, 16 * AreaScale)

ForcedConvection(k, T) ==
    FScale(FScale(FScale(Interpolate(ForcedKnots, T),
                         VelocityPow(k.ambient_velocity), 4096),
                  DiameterPow(k.diameter), 4096),
           k.section_area, 16 * AreaScale)

\* lines 54-61, divided by clinker_production (line 84)
Convection(k, T) ==
    IF IsNaN(T) THEN NaN
    ELSE IF k.ambient_velocity < 3 THEN NaturalConvection(k, T)
    ELSE ForcedConvection(k, T)

\* line 85: df['radiation'] + df['convection']
TotalLoss(k, temps) ==
    [i \in 1..Len(temps) |-> FAdd(Radiation(k, temps[i]), Convection(k, temps[i]))]

----------------------------------------------------------------------------
(* pandas Series operations *)

Unset == << >>
IsSet(v) == v # Unset
Val(v) == v[1]

RECURSIVE Insert(_, _)
Insert(s, x) ==
    IF s = << >> THEN << x >>
    ELSE IF x <= Head(s) THEN << x >> \o s
    ELSE << Head(s) >> \o Insert(Tail(s), x)

RECURSIVE SortValues(_)
SortValues(s) == IF s = << >> THEN << >> ELSE Insert(SortValues(Tail(s)), Head(s))

DropNaN(s) == SelectSeq(s, LAMBDA x : ~IsNaN(x))

\* Series.sum(): NaN entries are skipped, the rest added in order
RECURSIVE SumFrom(_, _)
SumFrom(acc, s) == IF s = << >> THEN acc ELSE SumFrom(FAdd(acc, Head(s)), Tail(s))

NanSum(s) == SumFrom(0, DropNaN(s))

\* numpy's linear interpolation between neighbours a <= b at fraction t4/4
Lerp(a, b, t4) ==
    IF 2 * t4 >= 4 THEN FSub(b, FScale(FSub(b, a), 4 - t4, 4))
    ELSE FAdd(a, FScale(FSub(b, a), t4, 4))

\* Series.quantile(q4/4), interpolation 'linear', NaN entries skipped
Quantile(s, q4) ==
    LET v   == SortValues(DropNaN(s))
        n   == Len(v)
        pos == q4 * (n - 1)
        lo  == pos \div 4 + 1
        hi  == IF lo + 1 > n THEN n ELSE lo + 1
    IN  IF n = 0 THEN NaN ELSE Lerp(v[lo], v[hi], pos % 4)

\* Series.median(): the middle value, or the mean of the two middle values
Median(s) ==
    LET v == SortValues(s)
        n == Len(v)
    IN  IF n = 0 THEN NaN
        ELSE IF n % 2 = 1 THEN v[(n + 1) \div 2]
        ELSE FScale(FAdd(v[n \div 2], v[n \div 2 + 1]), 1, 2)

ToSet(s) == {s[i] : i \in 1..Len(s)}

RECURSIVE Ascending(_)
Ascending(S) ==
    IF S = {} THEN << >>
    ELSE LET m == CHOOSE x \in S : \A y \in S : x <= y
         IN  << m >> \o Ascending(S \ {m})

\* a column as a Series: the labels 0, 1, ... mapped to the values
AsSeries(col) == [l \in 0..(Len(col) - 1) |-> col[l + 1]]

\* Series.drop(labels): the entries whose label is not dropped keep their label
Drop(series, labels) == [l \in (DOMAIN series) \ ToSet(labels) |-> series[l]]

\* the values of a Series in label order
SeriesValues(series) ==
    LET labels == Ascending(DOMAIN series)
    IN  [j \in 1..Len(labels) |-> series[labels[j]]]

----------------------------------------------------------------------------
(* Inputs *)

\* most rows an uploaded sheet has
MaxRows == 5

\* most sheets uploaded in one session
MaxUploads == 2

Kelvin(t) == t * TempScale

\* surface temperatures (Kelvin) a row's readings average to: one below
\* ambient, two neighbouring representable values, and two hotter ones
Readings == { Kelvin(290), Kelvin(396), Kelvin(396) + 1, Kelvin(410), Kelvin(500) }

\* half the difference of a row's two readings when the sheet has two columns
Spread == 64

\* the sidebar widgets (lines 64-70)
Sidebars ==
    { [diameter |-> 475, ambient_velocity |-> 1, ambient_temp |-> Kelvin(29),
       temp_unit |-> "Celsius", interval |-> 1],
      [diameter |-> 476, ambient_velocity |-> 3, ambient_temp |-> Kelvin(302),
       temp_unit |-> "Kelvin", interval |-> 2],
      [diameter |-> 476, ambient_velocity |-> 0, ambient_temp |-> Kelvin(302),
       temp_unit |-> "Kelvin", interval |-> 2],
      [diameter |-> 475, ambient_velocity |-> 5, ambient_temp |-> Kelvin(29),
       temp_unit |-> "Celsius", interval |-> 1] }

\* the number of columns of the sheet uploaded with each sidebar setting
Columns(sb) == IF sb.ambient_velocity \in {3, 5} THEN 2 ELSE 1

\* a temperature in Kelvin, in the sidebar's unit
InUnit(sb, t) == IF sb.temp_unit = "Kelvin" THEN t ELSE t - Kelvin(CELSIUS_OFFSET)

\* a row of the sheet whose readings average to t Kelvin
Row(sb, t) ==
    IF Columns(sb) = 1 THEN << InUnit(sb, t) >>
    ELSE << InUnit(sb, t) - Spread, InUnit(sb, t) + Spread >>

Sheets(sb) ==
    UNION { [1..n -> {Row(sb, t) : t \in Readings}] : n \in 1..MaxRows }

----------------------------------------------------------------------------
(* State *)

VARIABLES
    sidebar,        \* the widget values
    input_excel,    \* the uploaded sheet: a sequence of rows of readings
    kiln,           \* the Kiln object's scalar attributes
    df,             \* the DataFrame: column name -> column
    df_copy,        \* the copy of line 95
    total_loss, upper_whisker, lower_whisker,
    high_outliers, low_outliers,
    mediantemp, new_total_loss, savings,
    money_saved_per_year, repair_cost, savings_per_year_rupees,
    summary,        \* the 'Summary:' block written to the page
    warning,        \* the 'Something is wrong...' subheader of line 182
    download_link,  \* the table behind the download link of line 196
    uploads,        \* how many sheets have been uploaded so far
    pc

results == << total_loss, upper_whisker, lower_whisker, high_outliers, low_outliers,
              mediantemp, new_total_loss, savings, money_saved_per_year,
              repair_cost, savings_per_year_rupees >>

vars == << sidebar, input_excel, kiln, df, df_copy, results, summary, warning,
           download_link, uploads, pc >>

N == Len(input_excel)

Init ==
    /\ sidebar \in Sidebars
    /\ input_excel \in Sheets(sidebar)
    /\ kiln = Unset
    /\ df = << >>
    /\ df_copy = Unset
    /\ total_loss = Unset /\ upper_whisker = Unset /\ lower_whisker = Unset
    /\ high_outliers = Unset /\ low_outliers = Unset
    /\ mediantemp = Unset /\ new_total_loss = Unset /\ savings = Unset
    /\ money_saved_per_year = Unset /\ repair_cost = Unset
    /\ savings_per_year_rupees = Unset
    /\ summary = Unset
    /\ warning = FALSE
    /\ download_link = Unset
    /\ uploads = 1
    /\ pc = "uploaded"

----------------------------------------------------------------------------
(* ReadingAggregator: Kiln.__init__, lines 27-48 *)

RECURSIVE RowSum(_, _)
RowSum(acc, row) == IF row = << >> THEN acc ELSE RowSum(FAdd(acc, Head(row)), Tail(row))

\* lines 40-41: the row mean, plus 273 unless the unit is Kelvin
Average(sb, row) ==
    LET columns_count == Len(row)
        mean == FScale(RowSum(0, row), 1, columns_count)
    IN  IF sb.temp_unit = "Kelvin" THEN mean ELSE FAdd(mean, Kelvin(CELSIUS_OFFSET))

\* line 45: range(interval, interval*rows_count+1, interval)
Lengths(iv, rows_count) == [i \in 1..rows_count |-> i * iv]

NewKiln(sb) ==
    [diameter |-> sb.diameter,
     ambient_velocity |-> sb.ambient_velocity,
     ambient_temp |-> IF sb.temp_unit = "Kelvin" THEN sb.ambient_temp
                      ELSE FAdd(sb.ambient_temp, Kelvin(CELSIUS_OFFSET)),
     interval |-> sb.interval,
     section_area |-> SectionArea(sb.diameter, sb.interval)]

\* the columns of df after Kiln.__init__
NewFrame(sb, sheet) ==
    [c \in {"length", "temp"} |->
        IF c = "length" THEN Lengths(sb.interval, Len(sheet))
        ELSE [i \in 1..Len(sheet) |-> Average(sb, sheet[i])]]

----------------------------------------------------------------------------
(* Pass 1, lines 78-95: the Kiln object, the loss columns, their total *)

\* a frame with one more column
WithColumn(frame, name, col) ==
    [c \in DOMAIN frame \cup {name} |-> IF c = name THEN col ELSE frame[c]]

\* lines 83-85 (tempcol = 'temp') and 125-127 (tempcol = 'new temp')
WithLosses(frame, k, tempcol, prefix) ==
    LET t  == frame[tempcol]
        f1 == WithColumn(frame, prefix \o "radiation",
                         [i \in 1..Len(t) |-> Radiation(k, t[i])])
        f2 == WithColumn(f1, prefix \o "convection",
                         [i \in 1..Len(t) |-> Convection(k, t[i])])
    IN  WithColumn(f2, prefix \o "total loss", TotalLoss(k, t))

ComputeLosses ==
    /\ pc = "uploaded"
    /\ LET k == NewKiln(sidebar)
           f == WithLosses(NewFrame(sidebar, input_excel), k, "temp", "")
       IN  /\ kiln' = << k >>
           /\ df' = f
           /\ total_loss' = << NanSum(f["total loss"]) >>
           /\ df_copy' = << f >>
    /\ pc' = "losses"
    /\ UNCHANGED << sidebar, input_excel, upper_whisker, lower_whisker,
                    high_outliers, low_outliers, mediantemp, new_total_loss,
                    savings, money_saved_per_year, repair_cost,
                    savings_per_year_rupees, summary, warning, download_link, uploads >>

----------------------------------------------------------------------------
(* OutlierDetector, lines 98-113 *)

\* line 101
UpperWhisker(q1, q3) == FAdd(q3, FScale(FSub(q3, q1), 3, 2))

\* line 102
LowerWhisker(q1, q3) == FSub(q1, FScale(FSub(q3, q1), 3, 2))

\* variant of line 110 that compares with >= instead of >
IsHighOutlierInclusive(loss, upper) == ~IsNaN(loss) /\ ~IsNaN(upper) /\ loss >= upper

\* line 110
IsHighOutlier(loss, upper) == FGt(loss, upper)

\* variant of line 112 with the operands of < exchanged
IsLowOutlierReversed(loss, lower) == FLt(lower, loss)

\* line 112
IsLowOutlier(loss, lower) == FLt(loss, lower)

\* lines 107-113: the labels appended while iterating the column in order
HighOutliers(col, upper) ==
    Ascending({i \in 0..(Len(col) - 1) : IsHighOutlier(col[i + 1], upper)})

LowOutliers(col, lower) ==
    Ascending({i \in 0..(Len(col) - 1) : IsLowOutlier(col[i + 1], lower)})

FindOutliers ==
    /\ pc = "losses"
    /\ LET col == df["total loss"]
           Q1  == Quantile(col, 1)
           Q3  == Quantile(col, 3)
       IN  /\ upper_whisker' = << UpperWhisker(Q1, Q3) >>
           /\ lower_whisker' = << LowerWhisker(Q1, Q3) >>
           /\ high_outliers' = HighOutliers(col, UpperWhisker(Q1, Q3))
           /\ low_outliers' = LowOutliers(col, LowerWhisker(Q1, Q3))
    /\ pc' = "outliers"
    /\ UNCHANGED << sidebar, input_excel, kiln, df, df_copy, total_loss,
                    mediantemp, new_total_loss, savings, money_saved_per_year,
                    repair_cost, savings_per_year_rupees, summary, warning,
                    download_link, uploads >>

----------------------------------------------------------------------------
(* RepairEstimator, lines 115-193 *)

\* variant of line 115 that enters the repair branch for any list
HasHighOutliersAlways(high) == Len(high) >= 0

\* line 115
HasHighOutliers(high) == Len(high) > 0

\* variant of line 117 without .drop(low_outliers)
MedianTempKeepingLow(temps, high, low) ==
    Median(SeriesValues(Drop(AsSeries(temps), high)))

\* line 117
MedianTemp(temps, high, low) ==
    Median(SeriesValues(Drop(Drop(AsSeries(temps), high), low)))

\* variant of lines 118-121 that takes the labels as 1-based positions
NewTempOffByOne(temps, high, median) ==
    [i \in 1..Len(temps) |-> IF i \in ToSet(high) THEN median ELSE temps[i]]

\* lines 118-121
NewTemp(temps, high, median) ==
    [i \in 1..Len(temps) |-> IF (i - 1) \in ToSet(high) THEN median ELSE temps[i]]

Repair ==
    /\ pc = "outliers"
    /\ HasHighOutliers(high_outliers)
    /\ LET m == MedianTemp(df["temp"], high_outliers, low_outliers)
           f == WithLosses(WithColumn(df, "new temp",
                                      NewTemp(df["temp"], high_outliers, m)),
                           Val(kiln), "new temp", "new ")
       IN  /\ mediantemp' = << m >>
           /\ df' = f
           /\ new_total_loss' = << NanSum(f["new total loss"]) >>
           /\ savings' = << FSub(Val(total_loss), NanSum(f["new total loss"])) >>
    /\ pc' = "repaired"
    /\ UNCHANGED << sidebar, input_excel, kiln, df_copy, total_loss,
                    upper_whisker, lower_whisker, high_outliers, low_outliers,
                    money_saved_per_year, repair_cost, savings_per_year_rupees,
                    summary, warning, download_link, uploads >>

\* variant of line 137 that tests savings >= 0.0
SavingsNonNegative(s) == ~IsNaN(s) /\ s >= 0

\* line 137
SavingsPositive(s) == FGt(s, 0)

\* lines 139-147
MoneySavedPerYear(s) ==
    LET savings_per_hour == FScale(s, CLINKER_PRODUCTION \div 16, 65536)
        working_hours_per_year == WORKING_DAYS_PER_YEAR * 24
        savings_per_year == FScale(savings_per_hour, working_hours_per_year, 8192)
        coal_saved_per_year == FScale(savings_per_year, 4096, COAL_CALORIFIC_VALUE)
        coal_saved_per_year_tons == FScale(coal_saved_per_year, 1024, 1000)
    IN  FScale(coal_saved_per_year_tons, COAL_COST_PER_TON, 8192)

\* line 156; the diameter is in cm, 71.5 is 715/10
BricksPerRing(d) ==
    LET internal_diameter == d * 10 - 2 * SHELL_THICKNESS
    IN  (Pi314Num * 10 * (internal_diameter - BRICK_HEIGHT)) \div (Pi314Den * 715)

\* lines 150-159
RepairCost(d, high) ==
    LET kiln_length_damaged == Len(high)
        bricks_per_meter == BricksPerRing(d) * RINGS_PER_METER
        bricks_damaged_count == bricks_per_meter * kiln_length_damaged
    IN  bricks_damaged_count * BRICK_COST

\* lines 168, 173, 189: ''.join(f'{x+1}m ' ...), as the numbers before each 'm'
OutliersText(labels) == [j \in 1..Len(labels) |-> labels[j] + 1]

ReportSavings ==
    /\ pc = "repaired"
    /\ SavingsPositive(Val(savings))
    /\ LET money == MoneySavedPerYear(Val(savings))
           cost  == RepairCost(Val(kiln).diameter, high_outliers)
       IN  /\ money_saved_per_year' = << money >>
           /\ repair_cost' = << cost >>
           /\ savings_per_year_rupees' = << FSub(money, cost) >>
           /\ summary' = << [kind |-> "repairs",
                             total_loss |-> Val(total_loss),
                             coating |-> OutliersText(low_outliers),
                             damaged |-> OutliersText(high_outliers),
                             kiln_length_damaged |-> Len(high_outliers),
                             savings |-> savings,
                             rupees |-> << FSub(money, cost) >>] >>
    /\ pc' = "reported"
    /\ UNCHANGED << sidebar, input_excel, kiln, df, df_copy, total_loss,
                    upper_whisker, lower_whisker, high_outliers, low_outliers,
                    mediantemp, new_total_loss, savings, warning, download_link,
                    uploads >>

ReportAnomaly ==
    /\ pc = "repaired"
    /\ ~SavingsPositive(Val(savings))
    /\ warning' = TRUE
    /\ pc' = "reported"
    /\ UNCHANGED << sidebar, input_excel, kiln, df, df_copy, results, summary,
                    download_link, uploads >>

ReportNoHighOutliers ==
    /\ pc = "outliers"
    /\ ~HasHighOutliers(high_outliers)
    /\ summary' = << [kind |-> "no high outliers",
                      total_loss |-> Val(total_loss),
                      coating |-> OutliersText(low_outliers),
                      damaged |-> << >>,
                      kiln_length_damaged |-> 0,
                      savings |-> Unset,
                      rupees |-> Unset] >>
    /\ pc' = "reported"
    /\ UNCHANGED << sidebar, input_excel, kiln, df, df_copy, results, warning,
                    download_link, uploads >>

\* lines 195-197
Download ==
    /\ pc = "reported"
    /\ download_link' = df_copy
    /\ pc' = "done"
    /\ UNCHANGED << sidebar, input_excel, kiln, df, df_copy, results, summary,
                    warning, uploads >>

\* lines 71, 78-79: the corrected temperatures are uploaded as a new sheet,
\* and Streamlit runs the script again from the top
Reupload ==
    /\ pc = "done"
    /\ IsSet(mediantemp)
    /\ uploads < MaxUploads
    /\ input_excel' = [i \in 1..N |-> << InUnit(sidebar, df["new temp"][i]) >>]
    /\ uploads' = uploads + 1
    /\ kiln' = Unset
    /\ df' = << >>
    /\ df_copy' = Unset
    /\ total_loss' = Unset /\ upper_whisker' = Unset /\ lower_whisker' = Unset
    /\ high_outliers' = Unset /\ low_outliers' = Unset
    /\ mediantemp' = Unset /\ new_total_loss' = Unset /\ savings' = Unset
    /\ money_saved_per_year' = Unset /\ repair_cost' = Unset
    /\ savings_per_year_rupees' = Unset
    /\ summary' = Unset
    /\ warning' = FALSE
    /\ download_link' = Unset
    /\ pc' = "uploaded"
    /\ UNCHANGED sidebar

Next ==
    \/ ComputeLosses
    \/ FindOutliers
    \/ Repair
    \/ ReportSavings
    \/ ReportAnomaly
    \/ ReportNoHighOutliers
    \/ Download
    \/ Reupload

Spec == Init /\ [][Next]_vars

----------------------------------------------------------------------------
(* Properties *)

AfterOutliers == pc \in {"outliers", "repaired", "reported", "done"}

AfterReport == pc \in {"reported", "done"}

Temps == df["temp"]

HighSet == ToSet(high_outliers)

LowSet == ToSet(low_outliers)

\* the (1-based) positions that are neither high nor low outliers
Kept == {i \in 1..N : (i - 1) \notin HighSet \cup LowSet}

\* the k-th smallest temperature among the positions in S
KthSmallest(S, k) ==
    CHOOSE v \in {Temps[i] : i \in S} :
        /\ Cardinality({i \in S : Temps[i] < v}) < k
        /\ Cardinality({i \in S : Temps[i] <= v}) >= k

\* the median of the temperatures at the positions in S (S not empty)
MedianOver(S) ==
    LET n == Cardinality(S)
    IN  IF n % 2 = 1 THEN KthSmallest(S, (n + 1) \div 2)
        ELSE FScale(FAdd(KthSmallest(S, n \div 2), KthSmallest(S, n \div 2 + 1)), 1, 2)

\* C1: the corrected temperature series has the length of the original and
\* equals it at every index that is not a high outlier; in particular every
\* low-outlier index keeps its temperature.
C1_NewTempFrame ==
    "new temp" \in DOMAIN df =>
        /\ Len(df["new temp"]) = Len(Temps)
        /\ Len(df["new temp"]) = N
        /\ \A i \in 1..N : (i - 1) \notin HighSet => df["new temp"][i] = Temps[i]
        /\ \A i \in 1..N : (i - 1) \in LowSet => df["new temp"][i] = Temps[i]

\* a repaired series with a low outlier left alone and a high outlier changed
C1_Witness ==
    /\ "new temp" \in DOMAIN df
    /\ LowSet # {}
    /\ \E i \in 1..N : (i - 1) \in HighSet /\ df["new temp"][i] # Temps[i]
    /\ \E i \in 1..N : (i - 1) \in LowSet /\ df["new temp"][i] = Temps[i]

\* C2: when a high outlier exists, every high-outlier index of the corrected
\* series holds mediantemp, the median of the original temperatures at the
\* indices that are neither high nor low outliers, and that set of indices
\* is not empty.
C2_MedianOfNonOutliers ==
    IsSet(mediantemp) =>
        /\ HighSet # {}
        /\ Kept # {}
        /\ Val(mediantemp) = MedianOver(Kept)
        /\ \A i \in 1..N : (i - 1) \in HighSet => df["new temp"][i] = Val(mediantemp)

\* a repair whose median differs because the low outlier is left out of it
C2_Witness ==
    /\ IsSet(mediantemp)
    /\ LowSet # {}
    /\ Val(mediantemp) # MedianOver({i \in 1..N : (i - 1) \notin HighSet})

\* C3: with no high outlier the script models no repair: no corrected
\* temperatures or losses, no savings, no repair cost, no net savings and no
\* warning; the summary reports the total loss and the low outliers only.
\* This holds for a second sheet made of corrected temperatures as well.
C3_NoHighNoRepair ==
    (AfterReport /\ HighSet = {}) =>
        /\ DOMAIN df = {"length", "temp", "radiation", "convection", "total loss"}
        /\ mediantemp = Unset /\ new_total_loss = Unset /\ savings = Unset
        /\ money_saved_per_year = Unset /\ repair_cost = Unset
        /\ savings_per_year_rupees = Unset
        /\ ~warning
        /\ IsSet(summary)
        /\ Val(summary).kind = "no high outliers"
        /\ Val(summary).total_loss = Val(total_loss)
        /\ Val(summary).coating = [j \in 1..Len(low_outliers) |-> low_outliers[j] + 1]
        /\ Val(summary).damaged = << >>
        /\ Val(summary).savings = Unset
        /\ Val(summary).rupees = Unset

\* the run on a corrected sheet ends with no high outlier and a low one
C3_Witness ==
    /\ uploads = 2
    /\ pc = "done"
    /\ HighSet = {}
    /\ LowSet # {}
    /\ savings = Unset

\* C4: with high outliers and savings <= 0 the script ends in the warning
\* state: it goes on to the download link of the pre-repair table, and it
\* computes no annual savings, no repair cost, no net savings and writes no
\* summary.  Savings equal to 0 is a warning, and the warning appears in no
\* other case.
C4_NonPositiveSavingsWarns ==
    /\ (AfterReport /\ IsSet(savings) /\ Val(savings) <= 0) =>
          /\ HighSet # {}
          /\ warning
          /\ money_saved_per_year = Unset /\ repair_cost = Unset
          /\ savings_per_year_rupees = Unset
          /\ summary = Unset
          /\ pc = "reported" => ENABLED Download
          /\ pc = "done" => (IsSet(download_link) /\ download_link = df_copy)
    /\ warning => (IsSet(savings) /\ Val(savings) <= 0)

\* a finished run whose savings are exactly zero
C4_Witness ==
    /\ pc = "done"
    /\ warning
    /\ Val(savings) = 0
    /\ HighSet # {}
    /\ IsSet(download_link)

NaturalRegime == IsSet(kiln) /\ Val(kiln).ambient_velocity < 3

BelowAmbient(col) ==
    col \in DOMAIN df /\ \E i \in 1..N : df[col][i] < Val(kiln).ambient_temp

\* C5: under natural convection a temperature (original or corrected) below
\* ambient aborts the run: no loss column, no outlier sets, no savings and no
\* summary are produced, and no loss value is NaN.
C5_DomainErrorAborts ==
    (NaturalRegime /\ (BelowAmbient("temp") \/ BelowAmbient("new temp"))) =>
        /\ "total loss" \notin DOMAIN df
        /\ total_loss = Unset
        /\ high_outliers = Unset /\ low_outliers = Unset
        /\ savings = Unset
        /\ summary = Unset

Losses == df["total loss"]

InterquartileRange == FSub(Quantile(Losses, 3), Quantile(Losses, 1))

\* C6 as stated: a series whose interquartile range is zero has no high and
\* no low outlier.
C6_ZeroIQRNoOutliers ==
    (AfterOutliers /\ InterquartileRange = 0) => (HighSet = {} /\ LowSet = {})

\* C6 amended: a series whose total-loss values are all equal has no high and
\* no low outlier.
C6_AllEqualNoOutliers ==
    (AfterOutliers /\ \A i, j \in 1..N : Losses[i] = Losses[j]) =>
        (high_outliers = << >> /\ low_outliers = << >>)

\* four or more equal losses (not NaN) have been classified
C6_Witness ==
    /\ AfterOutliers
    /\ N >= 4
    /\ \A i, j \in 1..N : Losses[i] = Losses[j]
    /\ ~IsNaN(Losses[1])
    /\ Losses[1] # 0
    /\ InterquartileRange = 0

\* C7: the high-outlier and low-outlier index sets are disjoint and both are
\* subsets of the index range [0, N).
C7_OutlierSetsDisjoint ==
    AfterOutliers =>
        /\ HighSet \cap LowSet = {}
        /\ HighSet \subseteq 0..(N - 1)
        /\ LowSet \subseteq 0..(N - 1)
        /\ Cardinality(HighSet) = Len(high_outliers)
        /\ Cardinality(LowSet) = Len(low_outliers)

\* a series with a high and a low outlier and a positive interquartile range
C7_Witness ==
    /\ AfterOutliers
    /\ HighSet # {}
    /\ LowSet # {}
    /\ InterquartileRange > 0

\* floor(pi * (diameter*1000 - 2*16 - 220) / 71.5), diameter in cm
BricksPerRingPi(d) ==
    (PiNum * 10 * (d * 10 - 2 * SHELL_THICKNESS - BRICK_HEIGHT)) \div (PiDen * 715)

\* C8: the repair cost is 100 * 5 * floor(pi*(diameter*1000 - 2*16 - 220)/71.5)
\* times the number of high-outlier locations, and the net annual savings are
\* the money saved minus that repair cost.
C8_RepairCostWithPi ==
    IsSet(repair_cost) =>
        /\ Val(repair_cost) =
              BRICK_COST * RINGS_PER_METER * BricksPerRingPi(Val(kiln).diameter)
                  * Len(high_outliers)
        /\ Val(savings_per_year_rupees) =
              FSub(Val(money_saved_per_year), Val(repair_cost))

\* C9: when every temperature is at or above ambient and a high outlier
\* exists, the corrected total loss is below the original one, the savings
\* are positive and the warning is not reached.
C9_RepairLowersTotalLoss ==
    (IsSet(savings) /\ ~BelowAmbient("temp")) =>
        /\ Val(new_total_loss) < Val(total_loss)
        /\ Val(savings) > 0
        /\ ~warning

\* C10: index i carries the length (i+1)*interval, lengths are strictly
\* increasing, and the summary lists every outlier by that length.
C10_LocationsAreLengths ==
    /\ "length" \in DOMAIN df =>
          /\ Len(df["length"]) = N
          /\ \A i \in 0..(N - 1) : df["length"][i + 1] = (i + 1) * sidebar.interval
          /\ \A i \in 1..(N - 1) : df["length"][i] < df["length"][i + 1]
    /\ IsSet(summary) =>
          /\ Val(summary).damaged =
                [j \in 1..Len(high_outliers) |-> df["length"][high_outliers[j] + 1]]
          /\ Val(summary).coating =
                [j \in 1..Len(low_outliers) |-> df["length"][low_outliers[j] + 1]]

====
